---------------------------- MODULE Spec2Model ----------------------------
(***************************************************************************)
(* Failure / backoff / retry engine of io-functions                        *)
(* (src/lib/utils/azure_queues.ts):                                        *)
(*   - getDelaySecForRetries           the delay policy (pure)             *)
(*   - updateMessageVisibilityTimeout  the visibility extender             *)
(*   - handleQueueProcessingFailure    the failure orchestrator            *)
(* One invocation of handleQueueProcessingFailure is a small state machine *)
(* whose steps are the points where the async function suspends: the       *)
(* callback of queueService.updateMessage and the promises returned by     *)
(* onTransientError and onPermanentError.                                  *)
(***************************************************************************)
EXTENDS Integers, Sequences, FiniteSets, TLC

\* ------------------------------------------------------------------ bounds

\* Largest dequeueCount the transport hands to the engine in the model.
MaxDequeueCount == 23

\* Largest explicit maxRetries argument tried on getDelaySecForRetries
\* (besides the default MAX_RETRIES).
MaxRetriesArg == 3

\* ------------------------------------------------------- program constants

\* const MAX_BACKOFF_MS = 7 * 24 * 3600 * 1000;
MAX_BACKOFF_MS == 7 * 24 * 3600 * 1000

\* const MIN_BACKOFF_MS = 285;
MIN_BACKOFF_MS == 285

\* Math.floor(Math.log2(a / b)) for integers a >= b >= 1: the largest k with
\* 2^k <= a / b, computed by doubling b. (For 604800000 / 285 the logarithm
\* is 21.017..., far from a whole number, so the double-precision result
\* has the same floor.)
RECURSIVE FloorLog2Ratio(_, _)
FloorLog2Ratio(a, b) ==
  IF 2 * b > a THEN 0 ELSE 1 + FloorLog2Ratio(a, 2 * b)

\* A derivation that rounds the logarithm up instead of down.
MAX_RETRIES_roundsUp ==
  LET k == FloorLog2Ratio(MAX_BACKOFF_MS, MIN_BACKOFF_MS)
  IN  IF MIN_BACKOFF_MS * 2^k = MAX_BACKOFF_MS THEN k ELSE k + 1

\* A derivation from the wrong bound: the backoff ceiling expressed in
\* seconds instead of milliseconds.
MAX_RETRIES_fromSeconds ==
  FloorLog2Ratio(MAX_BACKOFF_MS \div 1000, MIN_BACKOFF_MS)

\* export const MAX_RETRIES = Math.floor(Math.log2(MAX_BACKOFF_MS / MIN_BACKOFF_MS));
MAX_RETRIES ==
  FloorLog2Ratio(MAX_BACKOFF_MS, MIN_BACKOFF_MS)

\* ------------------------------------------------------------ delay policy

\* fp-ts Option<number>
None == [tag |-> "none"]
Unset == [tag |-> "unset"]
Some(v) == [tag |-> "some", value |-> v]

\* Math.floor in the place of Math.ceil.
CeilDiv_roundsDown(x, d) == x \div d

\* Math.ceil(x / d) for integers x >= 0, d > 0. (Below 2^53 the product
\* minBackoff * 2^nr is exact and a quotient that is not whole lies at least
\* 1/1000 from a whole number, so the double-precision ceiling is this one.)
CeilDiv(x, d) == (x \div d) + (IF x % d = 0 THEN 0 ELSE 1)

\* The policy with a strict budget test (nr < maxRetries).
getDelaySecForRetries_strict(retries, maxRetries, minBackoff) ==
  IF retries < maxRetries
    THEN Some(CeilDiv(minBackoff * 2^retries, 1000))
    ELSE None

\* The policy with the exponent taken from the retry number (nr - 1).
getDelaySecForRetries_retryExponent(retries, maxRetries, minBackoff) ==
  IF retries <= maxRetries
    THEN Some(CeilDiv(minBackoff * 2^(IF retries > 0 THEN retries - 1 ELSE 0), 1000))
    ELSE None

\* some(retries).filter(nr => nr <= maxRetries)
\*              .map(nr => Math.ceil((minBackoff * Math.pow(2, nr)) / 1000))
getDelaySecForRetries(retries, maxRetries, minBackoff) ==
  IF retries <= maxRetries
    THEN Some(CeilDiv(minBackoff * 2^retries, 1000))
    ELSE None


\* ------------------------------------------------------- inputs of the model

QueueNames == {"createdmessages", "emailnotifications"}
MessageIds == {"id1", "id2"}
PopReceipts == {"pr1", "pr2"}
ErrorMessages == {"boom"}
CallbackErrorMessages == {"cleanup failed", "cleanup timed out"}

\* Which required field of QueueMessage the bindings lack (or hold with the
\* wrong type); "none" when id, popReceipt and dequeueCount are all there.
MissingFields == {"none", "id", "popReceipt", "dequeueCount"}

\* context.bindings as handed to the engine.
Bindings ==
  [id : MessageIds, popReceipt : PopReceipts,
   dequeueCount : 1..MaxDequeueCount, missing : MissingFields]

\* The errors a queue handler can hand to the engine: the RuntimeErrors of
\* io-functions-commons and a plain Error.
ErrorKinds == {"TransientError", "PermanentError", "Error"}
Errors == [kind : ErrorKinds, message : ErrorMessages]

\* The error classifier is imported from io-functions-commons: a
\* RuntimeError carries its kind, and the transient ones are those made by
\* TransientError.

\* TransientError(message)
TransientError(message) == [kind |-> "TransientError", message |-> message]

\* toRuntimeError: a RuntimeError is kept, anything else becomes UnknownError
toRuntimeError(error) ==
  IF error.kind \in {"TransientError", "PermanentError", "UnknownError"}
    THEN error
    ELSE [kind |-> "UnknownError", message |-> error.message]

\* isTransientError
isTransientError(runtimeError) == runtimeError.kind = "TransientError"

\* A QueueMessage codec in which popReceipt is optional.
DecodeIsLeft_ignoresPopReceipt(queueMessageBindings) ==
  queueMessageBindings.missing \notin {"none", "popReceipt"}

\* QueueMessage.decode(queueMessageBindings).isLeft()
DecodeIsLeft(queueMessageBindings) == queueMessageBindings.missing # "none"

\* const numberOfRetries = queueMessage.dequeueCount, read one delivery late
\* (as a zero-based retry number).
DelayForMessage_zeroBased(queueMessage) ==
  getDelaySecForRetries(queueMessage.dequeueCount - 1, MAX_RETRIES, MIN_BACKOFF_MS)

\* const numberOfRetries = queueMessage.dequeueCount;
\* getDelaySecForRetries(numberOfRetries)
DelayForMessage(queueMessage) ==
  getDelaySecForRetries(queueMessage.dequeueCount, MAX_RETRIES, MIN_BACKOFF_MS)

\* A callback that reports the transport's error to the caller.
UpdateMessageCallbackResolves_failsOnError(err) ==
  IF err THEN "false" ELSE "true"

\* err => { ...; resolve(true); }: the value updateMessageVisibilityTimeout
\* resolves with once the transport has answered, with or without an error.
UpdateMessageCallbackResolves(err) == "true"

\* The value it resolves with when the policy yields no delay, were it to
\* ask for a retry all the same.
ExhaustedResolves_true == "true"

\* .getOrElseL(() => { ...; resolve(false); })
ExhaustedResolves == "false"

\* A retry made by hand: the message is put into the queue again
\* (queueService.createMessage) instead of having its visibility updated.
UpdateMessageCall_reenqueues(qn, queueMessage, visibilityTimeoutSec) ==
  [op |-> "createMessage", queueName |-> qn, id |-> queueMessage.id,
   popReceipt |-> queueMessage.popReceipt,
   visibilityTimeout |-> visibilityTimeoutSec]

\* queueService.updateMessage(queueName, queueMessage.id,
\*                            queueMessage.popReceipt, visibilityTimeoutSec, cb)
UpdateMessageCall(qn, queueMessage, visibilityTimeoutSec) ==
  [op |-> "updateMessage", queueName |-> qn, id |-> queueMessage.id,
   popReceipt |-> queueMessage.popReceipt,
   visibilityTimeout |-> visibilityTimeoutSec]

\* The retry test of the orchestrator, inverted.
ThrowsRetry_inverted(should) == should # "true"

\* if (shouldTriggerARetry) { throw new Error(`Retry|...`) } else { ... }
ThrowsRetry(should) == should = "true"

\* An escalation that hands the callback's error on as it is, with the
\* callback's own kind, instead of wrapping its message.
EscalatedError_unwrapped(cbError) == cbError

\* TransientError(callbackError.message)
EscalatedError(cbError) == TransientError(cbError.message)

\* A re-entry that starts the message's retry budget afresh.
EscalatedBindings_resetsCount(bindings) == [bindings EXCEPT !.dequeueCount = 1]

\* The nested call is handed queueMessageBindings itself.
EscalatedBindings(bindings) == bindings

\* onTransientError(...).then(...) without the .catch: a rejection of the
\* callback's promise leaves the await as an exception.
OnTransientErrorPropagates_noCatch(res) == res = "rejected"

\* await onTransientError(runtimeError)
\*   .then(errorOrResult => errorOrResult.mapLeft(err => winston.warn(...)))
\*   .catch(winston.error);
\* whether the awaited promise rejects, given what the callback's promise did:
\* a left is mapped (and logged), a rejection is caught (and logged).
OnTransientErrorPropagates(res) == FALSE

\* ------------------------------------------------------------------- state

VARIABLES
  queueName,              \* argument queueName
  queueMessageBindings,   \* argument queueMessageBindings
  frames,                 \* the error argument of each nested invocation
  pc,                     \* where the innermost invocation stands
  shouldTriggerARetry,    \* "unset" | "true" | "false"
  settled,                \* the returned promise: "pending" | "resolved" | "rejected"
  rejection,              \* what it rejected with ("none" if it did not)
  transportCalls,         \* calls of queueService.updateMessage
  transportResult,        \* "none" | "ok" | "error": what its callback got
  onTransientArgs,        \* arguments of the calls of onTransientError
  onPermanentArgs,        \* arguments of the calls of onPermanentError
  onTransientResult,      \* "none" | "right" | "left" | "rejected"
  onPermanentResult,      \* "none" | "right" | "left" | "rejected"
  callbackError,          \* the error in the left of onPermanentError (NoError if none)
  events,                 \* the steps of this invocation, in order
  chain,                  \* history of the message across its deliveries
  polRetries,             \* getDelaySecForRetries: argument retries
  polMaxRetries,          \*                        argument maxRetries
  polMinBackoff,          \*                        argument minBackoff
  polResult,              \*                        its result (Unset before the call)
  other,                  \* a second invocation's locals while the first runs
  monFetch,               \* queue monitor: each queue's getQueueMetadata promise
  monMetrics,             \*                the metrics tracked
  monErrors,              \*                the queues whose error was logged
  monSettled,             \*                the promise index returned
  monCalls,               \*                calls of getQueueMetadata, per queue
  monResults,             \*                the results its callback got, per queue
  cmMessage,              \* created-message handler: context.bindings.createdMessage
  cmDequeueCount,         \*                context.bindingData.dequeueCount
  cmPc,                   \*                where index stands
  cmFind,                 \*                what findMessage settled with
  cmFindCalls,            \*                the ids findMessage was called with
  cmDoneCalls,            \*                the calls of context.done
  cmLogs,                 \*                the calls of context.log
  svServiceId,            \* UpdateServiceHandler: path parameter serviceId
  svPayload,              \*                the payload serviceModelPayload
  svPc,                   \*                where the handler stands
  svExisting,             \*                what findOneByServiceId resolved with
  svReads,                \*                calls of serviceModel.findOneByServiceId
  svWrites,               \*                calls of serviceModel.update
  svResponse              \*                the response returned

engineVars ==
  <<queueName, queueMessageBindings, frames, pc, shouldTriggerARetry, settled,
    rejection, transportCalls, transportResult, onTransientArgs,
    onPermanentArgs, onTransientResult, onPermanentResult, callbackError,
    events, chain>>

policyVars == <<polRetries, polMaxRetries, polMinBackoff, polResult>>

pairVars == <<other>>

monitorVars ==
  <<monFetch, monMetrics, monErrors, monSettled, monCalls, monResults>>

createdVars ==
  <<cmMessage, cmDequeueCount, cmPc, cmFind, cmFindCalls, cmDoneCalls, cmLogs>>

serviceVars ==
  <<svServiceId, svPayload, svPc, svExisting, svReads, svWrites, svResponse>>

\* The two handlers that do not use the engine.
handlerVars == <<createdVars, serviceVars>>

\* What the engine's steps on the current invocation leave alone.
otherVars == <<policyVars, pairVars, monitorVars, handlerVars>>

vars == <<engineVars, policyVars, pairVars, monitorVars, handlerVars>>

Last(s) == s[Len(s)]

\* The runtimeError of the innermost invocation.
runtimeError == toRuntimeError(Last(frames))


NoError == [kind |-> "none", message |-> ""]

\* The history of a message some delivery of which failed with an error that
\* is not transient: nothing more is recorded about it.
BrokenChain == [allTransient |-> FALSE, firstDelivery |-> 0, retryRequests |-> 0]

\* The history of a message at the first delivery the engine sees: whether
\* every failure so far was transient, the dequeueCount of that delivery and
\* the number of retries the engine has requested for it since.
ChainStart(bindings, error) ==
  IF isTransientError(toRuntimeError(error))
    THEN [allTransient |-> TRUE, firstDelivery |-> bindings.dequeueCount,
          retryRequests |-> 0]
    ELSE BrokenChain

\* What a callback's promise can do: fulfil with right or left, or reject.
CallbackResults == {"right", "left", "rejected"}

\* The errors a callback can return in a left.
CallbackErrors ==
  [kind : {"TransientError", "PermanentError"}, message : CallbackErrorMessages]

\* ------------------------------------------- handleQueueProcessingFailure

\* A fresh invocation handleQueueProcessingFailure(queueService, b, qn, ..., e).
Invoke(qn, b, e) ==
  /\ queueName' = qn
  /\ queueMessageBindings' = b
  /\ frames' = <<e>>
  /\ pc' = "Received"
  /\ shouldTriggerARetry' = "unset"
  /\ settled' = "pending"
  /\ rejection' = "none"
  /\ transportCalls' = <<>>
  /\ transportResult' = "none"
  /\ onTransientArgs' = <<>>
  /\ onPermanentArgs' = <<>>
  /\ onTransientResult' = "none"
  /\ onPermanentResult' = "none"
  /\ callbackError' = NoError
  /\ events' = <<>>

\* Transient error, bindings that do not decode:
\* return Promise.reject(new Error("INVALID_QUEUE_MESSAGE_IN_BINDINGS")), which
\* the await in handleQueueProcessingFailure rethrows.
TransientInvalidBindings ==
  /\ pc = "Received"
  /\ isTransientError(runtimeError)
  /\ DecodeIsLeft(queueMessageBindings)
  /\ pc' = "Done"
  /\ settled' = "rejected"
  /\ rejection' = "INVALID_QUEUE_MESSAGE_IN_BINDINGS"
  /\ events' = Append(events, "reject")
  /\ UNCHANGED <<queueName, queueMessageBindings, frames, shouldTriggerARetry,
                 transportCalls, transportResult, onTransientArgs,
                 onPermanentArgs, onTransientResult, onPermanentResult,
                 callbackError>>
  /\ UNCHANGED <<chain, otherVars>>

\* updateMessageVisibilityTimeout called without await: the pending promise
\* is taken for a truthy shouldTriggerARetry and onTransientError is called
\* before the transport has answered.
TransientUpdateMessage_notAwaited ==
  /\ pc = "Received"
  /\ isTransientError(runtimeError)
  /\ ~DecodeIsLeft(queueMessageBindings)
  /\ DelayForMessage(queueMessageBindings).tag = "some"
  /\ transportCalls' =
       Append(transportCalls,
              UpdateMessageCall(queueName, queueMessageBindings,
                                DelayForMessage(queueMessageBindings).value))
  /\ shouldTriggerARetry' = "true"
  /\ onTransientArgs' = Append(onTransientArgs, runtimeError)
  /\ pc' = "AwaitOnTransient"
  /\ events' = events \o <<"updateMessage", "onTransientError">>
  /\ UNCHANGED <<queueName, queueMessageBindings, frames, settled, rejection,
                 transportResult, onPermanentArgs, onTransientResult,
                 onPermanentResult, callbackError>>
  /\ UNCHANGED <<chain, otherVars>>

\* Transient error, the policy yields a delay: queueService.updateMessage is
\* called and updateMessageVisibilityTimeout waits for its callback.
TransientUpdateMessage ==
  /\ pc = "Received"
  /\ isTransientError(runtimeError)
  /\ ~DecodeIsLeft(queueMessageBindings)
  /\ DelayForMessage(queueMessageBindings).tag = "some"
  /\ transportCalls' =
       Append(transportCalls,
              UpdateMessageCall(queueName, queueMessageBindings,
                                DelayForMessage(queueMessageBindings).value))
  /\ pc' = "AwaitUpdateMessage"
  /\ events' = Append(events, "updateMessage")
  /\ UNCHANGED <<queueName, queueMessageBindings, frames, shouldTriggerARetry,
                 settled, rejection, transportResult, onTransientArgs,
                 onPermanentArgs, onTransientResult, onPermanentResult,
                 callbackError>>
  /\ UNCHANGED <<chain, otherVars>>

\* The policy yields none and the orchestrator stops at once, without calling
\* onTransientError.
TransientExhausted_skipsCallback ==
  /\ pc = "Received"
  /\ isTransientError(runtimeError)
  /\ ~DecodeIsLeft(queueMessageBindings)
  /\ DelayForMessage(queueMessageBindings).tag = "none"
  /\ shouldTriggerARetry' = ExhaustedResolves
  /\ pc' = "Done"
  /\ settled' = "resolved"
  /\ events' = events \o <<"exhausted", "stop">>
  /\ UNCHANGED <<queueName, queueMessageBindings, frames, rejection,
                 transportCalls, transportResult, onTransientArgs,
                 onPermanentArgs, onTransientResult, onPermanentResult,
                 callbackError>>
  /\ UNCHANGED <<chain, otherVars>>

\* Transient error, the policy yields none: resolve(false) without a call to
\* the transport; the orchestrator goes on to onTransientError(runtimeError).
TransientExhausted ==
  /\ pc = "Received"
  /\ isTransientError(runtimeError)
  /\ ~DecodeIsLeft(queueMessageBindings)
  /\ DelayForMessage(queueMessageBindings).tag = "none"
  /\ shouldTriggerARetry' = ExhaustedResolves
  /\ onTransientArgs' = Append(onTransientArgs, runtimeError)
  /\ pc' = "AwaitOnTransient"
  /\ events' = events \o <<"exhausted", "onTransientError">>
  /\ UNCHANGED <<queueName, queueMessageBindings, frames, settled, rejection,
                 transportCalls, transportResult, onPermanentArgs,
                 onTransientResult, onPermanentResult,
                 callbackError>>
  /\ UNCHANGED <<chain, otherVars>>

\* The transport answers updateMessage, with an error or without:
\* resolve(true); the orchestrator goes on to onTransientError(runtimeError).
UpdateMessageCallback ==
  \E err \in BOOLEAN :
    /\ pc = "AwaitUpdateMessage"
    /\ transportResult' = (IF err THEN "error" ELSE "ok")
    /\ shouldTriggerARetry' = UpdateMessageCallbackResolves(err)
    /\ onTransientArgs' = Append(onTransientArgs, runtimeError)
    /\ pc' = "AwaitOnTransient"
    /\ events' = events \o <<"updateMessageCallback", "onTransientError">>
    /\ UNCHANGED <<queueName, queueMessageBindings, frames, settled, rejection,
                   transportCalls, onPermanentArgs, onTransientResult,
                   onPermanentResult,
                 callbackError>>
    /\ UNCHANGED <<chain, otherVars>>

\* The promise of onTransientError settles. A left is logged by mapLeft, a
\* rejection by .catch(winston.error); then the retry is thrown or the
\* function returns.
OnTransientErrorSettles ==
  \E res \in CallbackResults :
    /\ pc = "AwaitOnTransient"
    /\ onTransientResult' = res
    /\ pc' = "Done"
    /\ IF OnTransientErrorPropagates(res)
         THEN /\ settled' = "rejected"
              /\ rejection' = "onTransientError"
              /\ events' = events \o <<"onTransientErrorSettled", "reject">>
              /\ chain' = chain
         ELSE IF ThrowsRetry(shouldTriggerARetry)
         THEN /\ settled' = "rejected"
              /\ rejection' = "Retry"
              /\ events' = events \o <<"onTransientErrorSettled", "throwRetry">>
              /\ chain' = IF chain.allTransient
                            THEN [chain EXCEPT !.retryRequests = @ + 1]
                            ELSE chain
         ELSE /\ settled' = "resolved"
              /\ rejection' = "none"
              /\ events' = events \o <<"onTransientErrorSettled", "stop">>
              /\ chain' = chain
    /\ UNCHANGED <<queueName, queueMessageBindings, frames, shouldTriggerARetry,
                   transportCalls, transportResult, onTransientArgs,
                   onPermanentArgs, onPermanentResult,
                 callbackError>>
    /\ UNCHANGED otherVars

\* Not a transient error: onPermanentError(runtimeError) is called.
PermanentEntry ==
  /\ pc = "Received"
  /\ ~isTransientError(runtimeError)
  /\ onPermanentArgs' = Append(onPermanentArgs, runtimeError)
  /\ pc' = "AwaitOnPermanent"
  /\ events' = Append(events, "onPermanentError")
  /\ UNCHANGED <<queueName, queueMessageBindings, frames, shouldTriggerARetry,
                 settled, rejection, transportCalls, transportResult,
                 onTransientArgs, onTransientResult, onPermanentResult,
                 callbackError>>
  /\ UNCHANGED <<chain, otherVars>>

\* The fold with its branches swapped: a right re-enters the function as for
\* a failed callback.
OnPermanentErrorRight_reenters ==
  /\ pc = "AwaitOnPermanent"
  /\ onPermanentResult' = "right"
  /\ frames' = Append(frames, TransientError(Last(frames).message))
  /\ pc' = "Received"
  /\ events' = events \o <<"onPermanentErrorSettled", "reenter">>
  /\ UNCHANGED <<queueName, queueMessageBindings, shouldTriggerARetry,
                 settled, rejection, transportCalls, transportResult,
                 onTransientArgs, onPermanentArgs, onTransientResult,
                 callbackError>>
  /\ UNCHANGED <<chain, otherVars>>

\* onPermanentError fulfils with a right: async () => void 0.
OnPermanentErrorRight ==
  /\ pc = "AwaitOnPermanent"
  /\ onPermanentResult' = "right"
  /\ pc' = "Done"
  /\ settled' = "resolved"
  /\ events' = events \o <<"onPermanentErrorSettled", "stop">>
  /\ UNCHANGED <<queueName, queueMessageBindings, frames, shouldTriggerARetry,
                 rejection, transportCalls, transportResult, onTransientArgs,
                 onPermanentArgs, onTransientResult,
                 callbackError>>
  /\ UNCHANGED <<chain, otherVars>>

\* onPermanentError fulfils with a left: the function calls itself with
\* TransientError(callbackError.message) and the same other arguments.
OnPermanentErrorLeft ==
  \E ce \in CallbackErrors :
    /\ pc = "AwaitOnPermanent"
    /\ onPermanentResult' = "left"
    /\ callbackError' = ce
    /\ frames' = Append(frames, EscalatedError(ce))
    /\ queueMessageBindings' = EscalatedBindings(queueMessageBindings)
    /\ pc' = "Received"
    /\ events' = events \o <<"onPermanentErrorSettled", "reenter">>
    /\ UNCHANGED <<queueName, shouldTriggerARetry,
                   settled, rejection, transportCalls, transportResult,
                   onTransientArgs, onPermanentArgs, onTransientResult>>
    /\ UNCHANGED <<chain, otherVars>>

\* A rejection of onPermanentError caught and escalated like a left.
OnPermanentErrorRejects_escalates ==
  /\ pc = "AwaitOnPermanent"
  /\ onPermanentResult' = "rejected"
  /\ frames' = Append(frames, TransientError("rejected"))
  /\ pc' = "Received"
  /\ events' = events \o <<"onPermanentErrorSettled", "reenter">>
  /\ UNCHANGED <<queueName, queueMessageBindings, shouldTriggerARetry, settled,
                 rejection, transportCalls, transportResult, onTransientArgs,
                 onPermanentArgs, onTransientResult, callbackError>>
  /\ UNCHANGED <<chain, otherVars>>

\* onPermanentError rejects: "do not catch here, let it throw".
OnPermanentErrorRejects ==
  /\ pc = "AwaitOnPermanent"
  /\ onPermanentResult' = "rejected"
  /\ pc' = "Done"
  /\ settled' = "rejected"
  /\ rejection' = "onPermanentError"
  /\ events' = events \o <<"onPermanentErrorSettled", "reject">>
  /\ UNCHANGED <<queueName, queueMessageBindings, frames, shouldTriggerARetry,
                 transportCalls, transportResult, onTransientArgs,
                 onPermanentArgs, onTransientResult,
                 callbackError>>
  /\ UNCHANGED <<chain, otherVars>>

\* The hosting runtime: a rejected invocation leaves the message in the
\* queue; the transport delivers it again with dequeueCount + 1 and a new
\* popReceipt, processing fails again and the handler calls the engine anew.
Redeliver ==
  \E pr \in PopReceipts, e \in Errors :
    /\ pc = "Done"
    /\ settled = "rejected"
    /\ queueMessageBindings.dequeueCount < MaxDequeueCount
    /\ Invoke(queueName,
              [queueMessageBindings EXCEPT
                 !.dequeueCount = @ + 1, !.popReceipt = pr],
              e)
    /\ chain' = IF chain.allTransient /\ isTransientError(toRuntimeError(e))
                  THEN chain
                  ELSE BrokenChain
    /\ UNCHANGED otherVars


\* ----------------------------------------- getDelaySecForRetries, called alone

\* The arguments tried: retries from 0 to past the largest budget, maxRetries
\* small or the default, minBackoff 1 ms, the default or 500 ms.
PolicyRetries == 0..(MaxDequeueCount + 1)
PolicyMaxRetries == (0..MaxRetriesArg) \cup {MAX_RETRIES}
PolicyMinBackoffs == {1, MIN_BACKOFF_MS, 500}

\* getDelaySecForRetries(polRetries, polMaxRetries, polMinBackoff) returns.
PolicyCall ==
  /\ polResult = Unset
  /\ polResult' = getDelaySecForRetries(polRetries, polMaxRetries, polMinBackoff)
  /\ UNCHANGED <<polRetries, polMaxRetries, polMinBackoff>>
  /\ UNCHANGED <<engineVars, pairVars, monitorVars, handlerVars>>

\* The next call, with other arguments.
PolicyNextArguments ==
  \E r \in PolicyRetries, m \in PolicyMaxRetries, b \in PolicyMinBackoffs :
    /\ polResult # Unset
    /\ polRetries' = r
    /\ polMaxRetries' = m
    /\ polMinBackoff' = b
    /\ polResult' = Unset
    /\ UNCHANGED <<engineVars, pairVars, monitorVars, handlerVars>>

\* ------------------------------------------------- two invocations at once

\* The parameters and locals of the invocation that is running.
Locals ==
  [queueName |-> queueName, queueMessageBindings |-> queueMessageBindings,
   frames |-> frames, pc |-> pc, shouldTriggerARetry |-> shouldTriggerARetry,
   settled |-> settled, rejection |-> rejection,
   transportCalls |-> transportCalls, transportResult |-> transportResult,
   onTransientArgs |-> onTransientArgs, onPermanentArgs |-> onPermanentArgs,
   onTransientResult |-> onTransientResult,
   onPermanentResult |-> onPermanentResult, callbackError |-> callbackError,
   events |-> events, chain |-> chain]

\* Those of an invocation just called with (qn, b, e).
FreshInvocation(qn, b, e) ==
  [queueName |-> qn, queueMessageBindings |-> b, frames |-> <<e>>,
   pc |-> "Received", shouldTriggerARetry |-> "unset", settled |-> "pending",
   rejection |-> "none", transportCalls |-> <<>>, transportResult |-> "none",
   onTransientArgs |-> <<>>, onPermanentArgs |-> <<>>,
   onTransientResult |-> "none", onPermanentResult |-> "none",
   callbackError |-> NoError, events |-> <<>>, chain |-> BrokenChain]

\* No second invocation.
NoInvocation ==
  [FreshInvocation("createdmessages",
                   [id |-> "id1", popReceipt |-> "pr1", dequeueCount |-> 1,
                    missing |-> "none"],
                   NoError)
     EXCEPT !.pc = "Idle", !.frames = <<>>]

\* The event loop resumes the other invocation at an await of the running one
\* (or once it has returned), were shouldTriggerARetry a variable of the
\* module, shared by the invocations, instead of a const of the function.
Switch_sharedRetryFlag ==
  /\ other.pc \notin {"Idle", "Done"}
  /\ other' = Locals
  /\ queueName' = other.queueName
  /\ queueMessageBindings' = other.queueMessageBindings
  /\ frames' = other.frames
  /\ pc' = other.pc
  /\ shouldTriggerARetry' = shouldTriggerARetry
  /\ settled' = other.settled
  /\ rejection' = other.rejection
  /\ transportCalls' = other.transportCalls
  /\ transportResult' = other.transportResult
  /\ onTransientArgs' = other.onTransientArgs
  /\ onPermanentArgs' = other.onPermanentArgs
  /\ onTransientResult' = other.onTransientResult
  /\ onPermanentResult' = other.onPermanentResult
  /\ callbackError' = other.callbackError
  /\ events' = other.events
  /\ chain' = other.chain
  /\ UNCHANGED <<policyVars, monitorVars, handlerVars>>

\* The event loop resumes the other invocation at an await of the running one
\* (or once it has returned): each invocation finds its parameters and its
\* consts as it left them.
Switch ==
  /\ other.pc \notin {"Idle", "Done"}
  /\ other' = Locals
  /\ queueName' = other.queueName
  /\ queueMessageBindings' = other.queueMessageBindings
  /\ frames' = other.frames
  /\ pc' = other.pc
  /\ shouldTriggerARetry' = other.shouldTriggerARetry
  /\ settled' = other.settled
  /\ rejection' = other.rejection
  /\ transportCalls' = other.transportCalls
  /\ transportResult' = other.transportResult
  /\ onTransientArgs' = other.onTransientArgs
  /\ onPermanentArgs' = other.onPermanentArgs
  /\ onTransientResult' = other.onTransientResult
  /\ onPermanentResult' = other.onPermanentResult
  /\ callbackError' = other.callbackError
  /\ events' = other.events
  /\ chain' = other.chain
  /\ UNCHANGED <<policyVars, monitorVars, handlerVars>>

\* ------------------------------------------------------ queue_monitor index

\* The largest approximateMessageCount the transport reports here.
MaxQueueLength == 2

\* EMAIL_NOTIFICATION_QUEUE_NAME, WEBHOOK_NOTIFICATION_QUEUE_NAME,
\* MESSAGE_QUEUE_NAME
MonitoredQueues == {"emailnotifications", "webhooknotifications", "createdmessages"}

\* The QueueResult the transport hands to the callback: its
\* approximateMessageCount may be absent.
QueueResults ==
  {[hasCount |-> FALSE, approximateMessageCount |-> 0]}
    \cup [hasCount : {TRUE}, approximateMessageCount : 0..MaxQueueLength]

\* A promisification that rejects with the transport's error.
getQueueMetadata_rejects(error, result) ==
  [settles |-> IF error THEN "rejected" ELSE "resolved",
   tag |-> IF error THEN "left" ELSE "right",
   result |-> result]

\* getQueueMetadata: the promise always resolves, with left(error) or
\* right(result).
getQueueMetadata(error, result) ==
  [settles |-> "resolved",
   tag |-> IF error THEN "left" ELSE "right",
   result |-> result]

\* result.approximateMessageCount || 0
MetricValue(result) ==
  IF result.hasCount /\ result.approximateMessageCount # 0
    THEN result.approximateMessageCount
    ELSE 0

\* name: `queue.length.${queueName}`
MetricName(q) == "queue.length." \o q

\* index(context): the three async functions of the map run up to their
\* await, each having called queueService.getQueueMetadata.
MonitorIndex ==
  /\ monSettled = "idle"
  /\ monSettled' = "pending"
  /\ monFetch' = [q \in MonitoredQueues |-> "pending"]
  /\ monCalls' = [q \in MonitoredQueues |-> monCalls[q] + 1]
  /\ UNCHANGED <<monMetrics, monErrors, monResults>>
  /\ UNCHANGED <<engineVars, policyVars, pairVars, handlerVars>>

\* A fetch that is made again when the transport answers with an error.
GetQueueMetadataCallback_retries(q) ==
  \E error \in BOOLEAN, result \in QueueResults :
    /\ monFetch[q] = "pending"
    /\ IF error
         THEN IF monCalls[q] < 2
                THEN /\ monCalls' = [monCalls EXCEPT ![q] = @ + 1]
                     /\ UNCHANGED <<monFetch, monMetrics, monErrors, monSettled,
                                    monResults>>
                ELSE /\ monFetch' = [monFetch EXCEPT ![q] = "left"]
                     /\ monErrors' = Append(monErrors, q)
                     /\ UNCHANGED <<monMetrics, monSettled, monCalls, monResults>>
         ELSE /\ monFetch' = [monFetch EXCEPT ![q] = "right"]
              /\ monResults' = [monResults EXCEPT ![q] = Append(@, result)]
              /\ monMetrics' =
                   Append(monMetrics,
                          [name |-> MetricName(q), value |-> MetricValue(result)])
              /\ UNCHANGED <<monErrors, monSettled, monCalls>>
    /\ UNCHANGED <<engineVars, policyVars, pairVars, handlerVars>>

\* The transport answers for queue q; the awaiting function resumes and
\* bimaps: an error is logged, a result is logged and tracked as a metric. A
\* rejected element rejects the promise of Promise.all at once.
GetQueueMetadataCallback(q) ==
  \E error \in BOOLEAN, result \in QueueResults :
    LET p == getQueueMetadata(error, result) IN
      /\ monFetch[q] = "pending"
      /\ IF p.settles = "rejected"
           THEN /\ monFetch' = [monFetch EXCEPT ![q] = "rejected"]
                /\ monSettled' = IF monSettled = "pending"
                                   THEN "rejected"
                                   ELSE monSettled
                /\ UNCHANGED <<monMetrics, monErrors, monResults>>
           ELSE IF p.tag = "left"
           THEN /\ monFetch' = [monFetch EXCEPT ![q] = "left"]
                /\ monErrors' = Append(monErrors, q)
                /\ UNCHANGED <<monMetrics, monSettled, monResults>>
           ELSE /\ monFetch' = [monFetch EXCEPT ![q] = "right"]
                /\ monResults' = [monResults EXCEPT ![q] = Append(@, p.result)]
                /\ monMetrics' =
                     Append(monMetrics,
                            [name |-> MetricName(q), value |-> MetricValue(p.result)])
                /\ UNCHANGED <<monErrors, monSettled>>
      /\ UNCHANGED monCalls
      /\ UNCHANGED <<engineVars, policyVars, pairVars, handlerVars>>

\* Every element of Promise.all has fulfilled: the promise index returned
\* resolves.
PromiseAllResolves ==
  /\ monSettled = "pending"
  /\ \A q \in MonitoredQueues : monFetch[q] \in {"left", "right"}
  /\ monSettled' = "resolved"
  /\ UNCHANGED <<monFetch, monMetrics, monErrors, monCalls, monResults>>
  /\ UNCHANGED <<engineVars, policyVars, pairVars, handlerVars>>

\* ------------------------------------ created_message_queue_handler index

\* What may stand in the place of an optional value.
Nullish == {"undefined", "null"}

MessagePayloadIds == {"m1", "m2"}
FiscalCodes == {"AAAAAA00A00A000A", "BBBBBB00B00B000B"}
LookupErrors == {"connection lost", "query timed out"}

\* context.bindings.createdMessage: absent, null, or an IMessagePayload whose
\* messageId is absent, null or a string.
CreatedMessages ==
  [kind : Nullish, messageId : {"undefined"}]
    \cup [kind : {"object"}, messageId : Nullish \cup MessagePayloadIds]

\* What findMessage settles with: a stored message, no message, an error.
FindOutcomes ==
  [tag : {"found"}, value : FiscalCodes]
    \cup [tag : {"notFound"}, value : Nullish]
    \cup [tag : {"error"}, value : LookupErrors]

NotCalled == [tag |-> "none", value |-> "none"]

\* x != null
NotNullish(x) == x \notin Nullish

\* index(context) up to its return: with a message and a message id,
\* findMessage is called and index returns; otherwise it logs and calls
\* context.done().
CreatedIndex ==
  /\ cmPc = "Triggered"
  /\ IF NotNullish(cmMessage.kind)
       THEN IF NotNullish(cmMessage.messageId)
              THEN /\ cmLogs' = Append(cmLogs, "Dequeued message")
                   /\ cmFindCalls' = Append(cmFindCalls, cmMessage.messageId)
                   /\ cmPc' = "AwaitFind"
                   /\ UNCHANGED cmDoneCalls
              ELSE /\ cmLogs' = Append(cmLogs, "Fatal! Message ID is null.")
                   /\ cmDoneCalls' = Append(cmDoneCalls, "none")
                   /\ cmPc' = "Done"
                   /\ UNCHANGED cmFindCalls
       ELSE /\ cmLogs' = Append(cmLogs, "Fatal! No message found in bindings.")
            /\ cmDoneCalls' = Append(cmDoneCalls, "none")
            /\ cmPc' = "Done"
            /\ UNCHANGED cmFindCalls
  /\ UNCHANGED <<cmMessage, cmDequeueCount, cmFind>>
  /\ UNCHANGED <<engineVars, policyVars, pairVars, monitorVars, serviceVars>>

\* findMessage fulfils, with a stored message or with none: log, then
\* context.done().
FindMessageFulfils ==
  \E out \in {o \in FindOutcomes : o.tag # "error"} :
    /\ cmPc = "AwaitFind"
    /\ cmFind' = out
    /\ cmLogs' = Append(cmLogs, IF NotNullish(out.value)
                                  THEN "recipient is"
                                  ELSE "not found")
    /\ cmDoneCalls' = Append(cmDoneCalls, "none")
    /\ cmPc' = "Done"
    /\ UNCHANGED <<cmMessage, cmDequeueCount, cmFindCalls>>
    /\ UNCHANGED <<engineVars, policyVars, pairVars, monitorVars, serviceVars>>

\* A rejection handler that completes without the error.
FindMessageRejects_swallows ==
  \E out \in {o \in FindOutcomes : o.tag = "error"} :
    /\ cmPc = "AwaitFind"
    /\ cmFind' = out
    /\ cmLogs' = Append(cmLogs, "Error while querying message")
    /\ cmDoneCalls' = Append(cmDoneCalls, "none")
    /\ cmPc' = "Done"
    /\ UNCHANGED <<cmMessage, cmDequeueCount, cmFindCalls>>
    /\ UNCHANGED <<engineVars, policyVars, pairVars, monitorVars, serviceVars>>

\* findMessage rejects: log, then context.done(error).
FindMessageRejects ==
  \E out \in {o \in FindOutcomes : o.tag = "error"} :
    /\ cmPc = "AwaitFind"
    /\ cmFind' = out
    /\ cmLogs' = Append(cmLogs, "Error while querying message")
    /\ cmDoneCalls' = Append(cmDoneCalls, out.value)
    /\ cmPc' = "Done"
    /\ UNCHANGED <<cmMessage, cmDequeueCount, cmFindCalls>>
    /\ UNCHANGED <<engineVars, policyVars, pairVars, monitorVars, serviceVars>>

\* The hosting runtime: an invocation completed with an error leaves the
\* message in the queue, and the trigger fires again for it with
\* dequeueCount + 1.
CreatedRedeliver ==
  /\ cmPc = "Done"
  /\ cmDoneCalls # <<>>
  /\ Last(cmDoneCalls) # "none"
  /\ cmDequeueCount < MaxDequeueCount
  /\ cmDequeueCount' = cmDequeueCount + 1
  /\ cmPc' = "Triggered"
  /\ cmFind' = NotCalled
  /\ cmFindCalls' = <<>>
  /\ cmDoneCalls' = <<>>
  /\ cmLogs' = <<>>
  /\ UNCHANGED cmMessage
  /\ UNCHANGED <<engineVars, policyVars, pairVars, monitorVars, serviceVars>>

\* ---------------------------------------------------- UpdateServiceHandler

ServiceIds == {"s1", "s2"}
DocumentIds == {"doc1", "doc2"}
DepartmentNames == {"dept A", "dept B"}

\* The payload the middleware decoded as an ApiService; decodes tells whether
\* what servicePayloadToService makes of it decodes as a Service.
ServicePayloads ==
  [service_id : ServiceIds, department_name : DepartmentNames, decodes : BOOLEAN]

\* A service as the store holds it.
StoredService(id, serviceId, departmentName) ==
  [id |-> id, serviceId |-> serviceId, departmentName |-> departmentName]

NoService == StoredService("none", "none", "none")

\* What serviceModel.findOneByServiceId(serviceId) resolves with: left(error),
\* right(none) or right(some(service)) for a service with that serviceId.
FindServiceOutcomes(serviceId) ==
  {[tag |-> "left", service |-> NoService],
   [tag |-> "notFound", service |-> NoService]}
    \cup {[tag |-> "found", service |-> StoredService(d, serviceId, n)] :
            d \in DocumentIds, n \in DepartmentNames}

\* What serviceModel.update resolves with.
UpdateOutcomes == {"left", "none", "some"}

\* servicePayloadToService(serviceModelPayload): Service.decode of the payload
\* with its fields renamed.
servicePayloadToService(payload) ==
  [tag |-> IF payload.decodes THEN "right" ELSE "left",
   value |-> [serviceId |-> payload.service_id,
              departmentName |-> payload.department_name]]

\* { ...currentService, ...serviceFromPayload, serviceId }
UpdatedService(currentService, serviceFromPayload, serviceId) ==
  [id |-> currentService.id,
   departmentName |-> serviceFromPayload.departmentName,
   serviceId |-> serviceId]

Response(kind, detail) == [kind |-> kind, detail |-> detail]

NoResponse == Response("none", "")

\* The handler without the comparison of the two ids.
UpdateServiceCalled_noIdCheck ==
  /\ svPc = "Called"
  /\ svReads' = Append(svReads, svServiceId)
  /\ svPc' = "AwaitFind"
  /\ UNCHANGED <<svServiceId, svPayload, svExisting, svWrites, svResponse>>
  /\ UNCHANGED <<engineVars, policyVars, pairVars, monitorVars, createdVars>>

\* The handler is called: ids that differ end it with a validation error;
\* otherwise it awaits serviceModel.findOneByServiceId(serviceId).
UpdateServiceCalled ==
  /\ svPc = "Called"
  /\ IF svPayload.service_id # svServiceId
       THEN /\ svResponse' = Response("ErrorValidation", "Error validating payload")
            /\ svPc' = "Returned"
            /\ UNCHANGED svReads
       ELSE /\ svReads' = Append(svReads, svServiceId)
            /\ svPc' = "AwaitFind"
            /\ UNCHANGED svResponse
  /\ UNCHANGED <<svServiceId, svPayload, svExisting, svWrites>>
  /\ UNCHANGED <<engineVars, policyVars, pairVars, monitorVars, createdVars>>

\* findOneByServiceId resolves: a left and a none end the handler; with a
\* service found the payload is converted, and a payload that converts is
\* written with serviceModel.update(existingService.id,
\* existingService.serviceId, f).
FindOneByServiceIdResolves ==
  \E out \in FindServiceOutcomes(svServiceId) :
    /\ svPc = "AwaitFind"
    /\ svExisting' = out
    /\ IF out.tag = "left"
         THEN /\ svResponse' = Response("ErrorQuery",
                                        "Error trying to retrieve existing service")
              /\ svPc' = "Returned"
              /\ UNCHANGED svWrites
         ELSE IF out.tag = "notFound"
         THEN /\ svResponse' = Response("ErrorNotFound", "Error")
              /\ svPc' = "Returned"
              /\ UNCHANGED svWrites
         ELSE IF servicePayloadToService(svPayload).tag = "left"
         THEN /\ svResponse' = Response("ErrorValidation", "Service")
              /\ svPc' = "Returned"
              /\ UNCHANGED svWrites
         ELSE /\ svWrites' =
                   Append(svWrites,
                          [id |-> out.service.id,
                           serviceId |-> out.service.serviceId,
                           service |->
                             UpdatedService(out.service,
                                            servicePayloadToService(svPayload).value,
                                            svServiceId)])
              /\ svPc' = "AwaitUpdate"
              /\ UNCHANGED svResponse
    /\ UNCHANGED <<svServiceId, svPayload, svReads>>
    /\ UNCHANGED <<engineVars, policyVars, pairVars, monitorVars, createdVars>>

\* serviceModel.update resolves: a left, a none, or the updated service.
UpdateResolves ==
  \E out \in UpdateOutcomes :
    /\ svPc = "AwaitUpdate"
    /\ svResponse' =
         IF out = "left"
           THEN Response("ErrorQuery", "Error while updating the existing service")
           ELSE IF out = "none"
           THEN Response("ErrorInternal", "Error while updating the existing service")
           ELSE Response("SuccessJson", "")
    /\ svPc' = "Returned"
    /\ UNCHANGED <<svServiceId, svPayload, svExisting, svReads, svWrites>>
    /\ UNCHANGED <<engineVars, policyVars, pairVars, monitorVars, createdVars>>

\* ------------------------------------------------------- the specifications

\* No call of getDelaySecForRetries of its own is under way.
PolicyIdle ==
  /\ polRetries = 0
  /\ polMaxRetries = MAX_RETRIES
  /\ polMinBackoff = MIN_BACKOFF_MS
  /\ polResult = Unset

\* No invocation of the engine is under way.
EngineIdle ==
  /\ queueName = "createdmessages"
  /\ queueMessageBindings =
       [id |-> "id1", popReceipt |-> "pr1", dequeueCount |-> 1, missing |-> "none"]
  /\ frames = <<>>
  /\ pc = "Idle"
  /\ shouldTriggerARetry = "unset"
  /\ settled = "pending"
  /\ rejection = "none"
  /\ transportCalls = <<>>
  /\ transportResult = "none"
  /\ onTransientArgs = <<>>
  /\ onPermanentArgs = <<>>
  /\ onTransientResult = "none"
  /\ onPermanentResult = "none"
  /\ callbackError = NoError
  /\ events = <<>>
  /\ chain = BrokenChain

\* No second invocation of the engine is suspended.
PairIdle == other = NoInvocation

\* The queue monitor has not been triggered.
MonitorIdle ==
  /\ monFetch = [q \in MonitoredQueues |-> "none"]
  /\ monMetrics = <<>>
  /\ monErrors = <<>>
  /\ monSettled = "idle"
  /\ monCalls = [q \in MonitoredQueues |-> 0]
  /\ monResults = [q \in MonitoredQueues |-> <<>>]

\* The created-message handler has not been triggered.
CreatedIdle ==
  /\ cmMessage = [kind |-> "undefined", messageId |-> "undefined"]
  /\ cmDequeueCount = 1
  /\ cmPc = "Idle"
  /\ cmFind = NotCalled
  /\ cmFindCalls = <<>>
  /\ cmDoneCalls = <<>>
  /\ cmLogs = <<>>

\* UpdateServiceHandler has not been called.
ServiceIdle ==
  /\ svServiceId = "s1"
  /\ svPayload = [service_id |-> "s1", department_name |-> "dept A", decodes |-> TRUE]
  /\ svPc = "Idle"
  /\ svExisting = [tag |-> "none", service |-> NoService]
  /\ svReads = <<>>
  /\ svWrites = <<>>
  /\ svResponse = NoResponse

HandlersIdle == CreatedIdle /\ ServiceIdle

\* A queue handler has caught an error and calls the engine.
Init ==
  /\ queueName \in QueueNames
  /\ queueMessageBindings \in Bindings
  /\ frames \in {<<e>> : e \in Errors}
  /\ pc = "Received"
  /\ shouldTriggerARetry = "unset"
  /\ settled = "pending"
  /\ rejection = "none"
  /\ transportCalls = <<>>
  /\ transportResult = "none"
  /\ onTransientArgs = <<>>
  /\ onPermanentArgs = <<>>
  /\ onTransientResult = "none"
  /\ onPermanentResult = "none"
  /\ callbackError = NoError
  /\ events = <<>>
  /\ chain = ChainStart(queueMessageBindings, frames[1])
  /\ PolicyIdle
  /\ PairIdle
  /\ MonitorIdle
  /\ HandlersIdle

Next ==
  \/ TransientInvalidBindings
  \/ TransientUpdateMessage
  \/ TransientExhausted
  \/ UpdateMessageCallback
  \/ OnTransientErrorSettles
  \/ PermanentEntry
  \/ OnPermanentErrorRight
  \/ OnPermanentErrorLeft
  \/ OnPermanentErrorRejects
  \/ Redeliver

Spec == Init /\ [][Next]_vars

\* The same, with every awaited party answering: the transport calls back,
\* the callbacks' promises settle and the runtime redelivers a message whose
\* invocation was rejected.
FairSpec == Spec /\ WF_vars(Next)

\* getDelaySecForRetries on its own, over the arguments above.
PolicyInit ==
  /\ polRetries \in PolicyRetries
  /\ polMaxRetries \in PolicyMaxRetries
  /\ polMinBackoff \in PolicyMinBackoffs
  /\ polResult = Unset
  /\ EngineIdle
  /\ PairIdle
  /\ MonitorIdle
  /\ HandlersIdle

PolicyNext ==
  \/ PolicyCall
  \/ PolicyNextArguments

SpecPolicy == PolicyInit /\ [][PolicyNext]_vars

\* Two invocations for different messages, each at the edge of the retry
\* budget or just past it, with bindings that decode or lack their
\* popReceipt; the second may be for the same queue or for another.
PairBindings(id) ==
  {b \in Bindings :
     /\ b.id = id
     /\ b.popReceipt = "pr1"
     /\ b.dequeueCount \in {MAX_RETRIES, MAX_RETRIES + 1}
     /\ b.missing \in {"none", "popReceipt"}}

\* The running invocation's parameters and locals are those of inv.
RunningIs(inv) ==
  /\ queueName = inv.queueName
  /\ queueMessageBindings = inv.queueMessageBindings
  /\ frames = inv.frames
  /\ pc = inv.pc
  /\ shouldTriggerARetry = inv.shouldTriggerARetry
  /\ settled = inv.settled
  /\ rejection = inv.rejection
  /\ transportCalls = inv.transportCalls
  /\ transportResult = inv.transportResult
  /\ onTransientArgs = inv.onTransientArgs
  /\ onPermanentArgs = inv.onPermanentArgs
  /\ onTransientResult = inv.onTransientResult
  /\ onPermanentResult = inv.onPermanentResult
  /\ callbackError = inv.callbackError
  /\ events = inv.events
  /\ chain = inv.chain

PairInit ==
  /\ \E b \in PairBindings("id1"), e \in Errors :
       RunningIs(FreshInvocation("createdmessages", b, e))
  /\ \E qn \in QueueNames, b \in PairBindings("id2"), e \in Errors :
       other = FreshInvocation(qn, b, e)
  /\ PolicyIdle
  /\ MonitorIdle
  /\ HandlersIdle

PairNext ==
  \/ TransientInvalidBindings
  \/ TransientUpdateMessage
  \/ TransientExhausted
  \/ UpdateMessageCallback
  \/ OnTransientErrorSettles
  \/ PermanentEntry
  \/ OnPermanentErrorRight
  \/ OnPermanentErrorLeft
  \/ OnPermanentErrorRejects
  \/ Switch

SpecPair == PairInit /\ [][PairNext]_vars

\* One run of the queue monitor.
MonitorInit ==
  /\ EngineIdle
  /\ PolicyIdle
  /\ PairIdle
  /\ MonitorIdle
  /\ HandlersIdle

MonitorNext ==
  \/ MonitorIndex
  \/ \E q \in MonitoredQueues : GetQueueMetadataCallback(q)
  \/ PromiseAllResolves

SpecMonitor == MonitorInit /\ [][MonitorNext]_vars

\* The queue trigger fires the created-message handler for a message.
CreatedInit ==
  /\ cmMessage \in CreatedMessages
  /\ cmDequeueCount = 1
  /\ cmPc = "Triggered"
  /\ cmFind = NotCalled
  /\ cmFindCalls = <<>>
  /\ cmDoneCalls = <<>>
  /\ cmLogs = <<>>
  /\ ServiceIdle
  /\ EngineIdle
  /\ PolicyIdle
  /\ PairIdle
  /\ MonitorIdle

CreatedNext ==
  \/ CreatedIndex
  \/ FindMessageFulfils
  \/ FindMessageRejects
  \/ CreatedRedeliver

SpecCreated == CreatedInit /\ [][CreatedNext]_vars

\* A request to update a service reaches UpdateServiceHandler.
ServiceInit ==
  /\ svServiceId \in ServiceIds
  /\ svPayload \in ServicePayloads
  /\ svPc = "Called"
  /\ svExisting = [tag |-> "none", service |-> NoService]
  /\ svReads = <<>>
  /\ svWrites = <<>>
  /\ svResponse = NoResponse
  /\ CreatedIdle
  /\ EngineIdle
  /\ PolicyIdle
  /\ PairIdle
  /\ MonitorIdle

ServiceNext ==
  \/ UpdateServiceCalled
  \/ FindOneByServiceIdResolves
  \/ UpdateResolves

SpecService == ServiceInit /\ [][ServiceNext]_vars


\* ------------------------------------------------------------------ claims

\* Vocabulary of the claims below.

\* The top-level invocation was called with an error classified transient.
TopTransient == frames # <<>> /\ isTransientError(toRuntimeError(frames[1]))

\* The top-level invocation was called with an error classified permanent.
TopPermanent == frames # <<>> /\ ~isTransientError(toRuntimeError(frames[1]))

\* The bindings decode into a QueueMessage.
Decodable == queueMessageBindings.missing = "none"

\* The bindings carry a dequeueCount (they may lack id or popReceipt).
HasDequeueCount == queueMessageBindings.missing # "dequeueCount"

deliveryCount == queueMessageBindings.dequeueCount

\* The invocation has ended in Resolved(RetryRequested).
RetryRequested == pc = "Done" /\ settled = "rejected" /\ rejection = "Retry"

\* The invocation has ended in Resolved(Stopped).
Stopped == pc = "Done" /\ settled = "resolved" /\ rejection = "none"

\* C1: a transient failure on a decodable message with deliveryCount <=
\* maxRetries can only end in RetryRequested: whenever the promise of
\* handleQueueProcessingFailure is settled it is rejected with the Retry
\* error, never resolved.
C1_TransientWithinBudgetRetries ==
  (TopTransient /\ Decodable /\ deliveryCount <= MAX_RETRIES)
    => /\ settled # "resolved"
       /\ (pc = "Done" => RetryRequested)
       /\ (settled # "pending" => pc = "Done")

\* C1 witness: the last delivery within the budget has ended in a retry.
C1_Witness ==
  /\ TopTransient /\ Decodable /\ deliveryCount = MAX_RETRIES
  /\ RetryRequested
  /\ transportResult = "ok"

\* C2 as stated: a transient failure on a message with deliveryCount >
\* maxRetries ends in Stopped and never calls updateMessage.
C2_Original ==
  (TopTransient /\ HasDequeueCount /\ deliveryCount > MAX_RETRIES)
    => /\ transportCalls = <<>>
       /\ (pc = "Done" => Stopped)

\* C2 amended: a transient failure on a decodable message with deliveryCount >
\* maxRetries ends in Stopped (the promise resolves, no retry is requested)
\* and updateMessage is never called during the invocation.
C2_TransientExhaustedStops ==
  (TopTransient /\ Decodable /\ deliveryCount > MAX_RETRIES)
    => /\ transportCalls = <<>>
       /\ transportResult = "none"
       /\ settled # "rejected"
       /\ (pc = "Done" => Stopped)

\* C2 witness: the first delivery past the budget has ended in Stopped.
C2_Witness ==
  /\ TopTransient /\ Decodable /\ deliveryCount = MAX_RETRIES + 1
  /\ Stopped
  /\ Len(onTransientArgs) = 1

\* C3: a permanent failure whose onPermanentError returns a right ends in
\* Stopped at every deliveryCount, with onPermanentError called exactly
\* once, onTransientError never and updateMessage never.
C3_PermanentHandledStops ==
  (TopPermanent /\ onPermanentResult = "right")
    => /\ Stopped
       /\ Len(onPermanentArgs) = 1
       /\ onTransientArgs = <<>>
       /\ transportCalls = <<>>
       /\ transportResult = "none"
       /\ Len(frames) = 1

\* C3 witness: a handled permanent failure within the retry budget.
C3_Witness ==
  /\ TopPermanent /\ onPermanentResult = "right"
  /\ Decodable /\ deliveryCount = 1
  /\ pc = "Done"

\* The outcome of a transient failure at the bindings' deliveryCount:
\* RetryRequested with one visibility update within the budget, Stopped
\* without one past it.
TransientOutcomeAtDeliveryCount ==
  IF deliveryCount <= MAX_RETRIES
    THEN RetryRequested /\ Len(transportCalls) = 1
    ELSE Stopped /\ transportCalls = <<>>

\* The step from a left of onPermanentError re-enters the function with
\* TransientError(e2.message), the same bindings and the same queue name.
EscalationStep ==
  (pc = "AwaitOnPermanent" /\ pc' = "Received")
    => /\ frames' = Append(frames, TransientError(callbackError'.message))
       /\ callbackError' \in CallbackErrors
       /\ queueMessageBindings' = queueMessageBindings
       /\ queueName' = queueName

\* C4 as stated: after onPermanentError returned an error the outcome is that
\* of a transient failure at the same deliveryCount, RetryRequested if
\* deliveryCount <= maxRetries and Stopped otherwise.
C4_Original ==
  (TopPermanent /\ onPermanentResult = "left" /\ HasDequeueCount /\ pc = "Done")
    => TransientOutcomeAtDeliveryCount

\* C4 amended: when onPermanentError returns an error e2 the function
\* re-enters itself with TransientError(e2.message), the same bindings and the
\* same deliveryCount, and on a decodable message the outcome is that of a
\* transient failure at that deliveryCount: RetryRequested (one visibility
\* update) if deliveryCount <= maxRetries, Stopped (no update) otherwise.
C4_EscalationActsAsTransient ==
  /\ [][EscalationStep]_vars
  /\ []((TopPermanent /\ onPermanentResult = "left")
          => /\ Len(frames) = 2
             /\ frames[2] = TransientError(callbackError.message)
             /\ Len(onPermanentArgs) = 1
             /\ (Decodable /\ pc = "Done" => TransientOutcomeAtDeliveryCount))

\* C4 witness: an escalated run that ended in Stopped past the budget (its
\* twin within the budget is C4_WitnessRetry).
C4_Witness ==
  /\ TopPermanent /\ onPermanentResult = "left" /\ Decodable
  /\ deliveryCount = MAX_RETRIES + 1
  /\ Stopped
  /\ frames[2].message = "cleanup timed out"


\* getDelaySecForRetries has returned for the arguments of the state.
PolicyReturned == polResult # Unset

\* The call used the default maxRetries and minBackoff.
PolicyDefaults ==
  polMaxRetries = MAX_RETRIES /\ polMinBackoff = MIN_BACKOFF_MS

\* C5: getDelaySecForRetries returns none if and only if retries >
\* maxRetries, and a delay for every retries <= maxRetries.
C5_ExhaustedIffPastBudget ==
  PolicyReturned
    => /\ (polResult = None <=> polRetries > polMaxRetries)
       /\ (polRetries <= polMaxRetries => polResult.tag = "some")

\* C5 witness: the first delivery past the default budget yields none.
C5_Witness ==
  /\ PolicyReturned /\ PolicyDefaults
  /\ polRetries = MAX_RETRIES + 1
  /\ polResult = None

\* C6: for retries <= maxRetries the delay is ceil(minBackoff * 2^retries /
\* 1000): the least whole number of seconds v with
\* v * 1000 >= minBackoff * 2^retries, the exponent being retries itself.
C6_DelayIsCeilOfDoubling ==
  (PolicyReturned /\ polRetries <= polMaxRetries)
    => /\ polResult.tag = "some"
       /\ polResult.value * 1000 >= polMinBackoff * 2^polRetries
       /\ (polResult.value - 1) * 1000 < polMinBackoff * 2^polRetries

\* C6 witness: 285 ms doubled 3 times is 2280 ms, rounded up to 3 s.
C6_Witness ==
  /\ PolicyReturned /\ PolicyDefaults
  /\ polRetries = 3
  /\ polResult = Some(3)

\* C7: with the default bounds, for every deliveryCount in 1..maxRetries the
\* delay v satisfies minBackoff * 2^deliveryCount / 1000 <= v <=
\* maxBackoff / 1000 = 604800 s.
C7_DelayWithinBackoffBounds ==
  (PolicyReturned /\ PolicyDefaults /\ polRetries \in 1..polMaxRetries)
    => /\ polResult.tag = "some"
       /\ polResult.value * 1000 >= MIN_BACKOFF_MS * 2^polRetries
       /\ polResult.value * 1000 <= MAX_BACKOFF_MS
       /\ polResult.value <= 604800

\* C7 witness: the last possible retry delay, 597689 s, at deliveryCount =
\* maxRetries.
C7_Witness ==
  /\ PolicyReturned /\ PolicyDefaults
  /\ polRetries = polMaxRetries
  /\ polResult = Some(597689)

\* C8: MAX_RETRIES is the largest k with MIN_BACKOFF_MS * 2^k <=
\* MAX_BACKOFF_MS, which is 21 for 285 ms and 604800000 ms; a call with the
\* defaults yields a delay exactly up to retries = 21.
C8_MaxRetriesIs21 ==
  /\ MIN_BACKOFF_MS = 285
  /\ MAX_BACKOFF_MS = 604800000
  /\ MAX_RETRIES = 21
  /\ MIN_BACKOFF_MS * 2^MAX_RETRIES <= MAX_BACKOFF_MS
  /\ MIN_BACKOFF_MS * 2^(MAX_RETRIES + 1) > MAX_BACKOFF_MS
  /\ (PolicyReturned /\ polMaxRetries \notin 0..MaxRetriesArg
        => (polResult.tag = "some" <=> polRetries <= 21))

\* C8 witness: a call with the derived budget at retries = 21 and at the
\* smallest backoff still yields a delay.
C8_Witness ==
  /\ PolicyReturned
  /\ polMaxRetries = 21 /\ polMaxRetries = MAX_RETRIES
  /\ polRetries = 21
  /\ polMinBackoff = 1
  /\ polResult.tag = "some"

\* C9: once the transport has answered updateMessage, with an error or
\* without, updateMessageVisibilityTimeout has resolved with true,
\* onTransientError has been called once, and the invocation can only end in
\* RetryRequested: the transport's error changes nothing.
C9_TransportErrorDoesNotBlockRetry ==
  transportResult \in {"ok", "error"}
    => /\ shouldTriggerARetry = "true"
       /\ Len(onTransientArgs) = 1
       /\ settled # "resolved"
       /\ (pc = "Done" => RetryRequested)

\* C9 witness: a retry requested although the transport reported an error.
C9_Witness ==
  /\ transportResult = "error"
  /\ RetryRequested
  /\ Len(onTransientArgs) = 1

\* C10: updateMessageVisibilityTimeout resolves with false if and only if
\* the delay policy yields none for the message's dequeueCount, and then
\* updateMessage has not been called.
C10_FalseIffExhausted ==
  /\ shouldTriggerARetry # "unset"
       => /\ Decodable
          /\ (shouldTriggerARetry = "false"
                <=> getDelaySecForRetries(deliveryCount, MAX_RETRIES,
                                          MIN_BACKOFF_MS) = None)
  /\ shouldTriggerARetry = "false"
       => /\ transportCalls = <<>>
          /\ transportResult = "none"

\* C10 witness: false at the first delivery past the budget, no transport
\* call made.
C10_Witness ==
  /\ shouldTriggerARetry = "false"
  /\ deliveryCount = MAX_RETRIES + 1
  /\ transportCalls = <<>>
  /\ pc = "AwaitOnTransient"


\* C11: on the transient path the result of onTransientError does not change
\* the decision: whether its promise fulfils with a right or a left or
\* rejects, the invocation ends in RetryRequested when deliveryCount <=
\* maxRetries and in Stopped when deliveryCount > maxRetries, and what it
\* rejects with is never the callback's error.
C11_OnTransientResultIgnored ==
  onTransientResult # "none"
    => /\ pc = "Done"
       /\ rejection \in {"Retry", "none"}
       /\ (deliveryCount <= MAX_RETRIES => RetryRequested)
       /\ (deliveryCount > MAX_RETRIES => Stopped)

\* C11 witness: a retry requested although the promise of onTransientError
\* rejected.
C11_Witness ==
  /\ onTransientResult = "rejected"
  /\ RetryRequested
  /\ deliveryCount = 1

C13_Original ==
  (/\ chain.allTransient /\ HasDequeueCount
   /\ chain.firstDelivery <= MAX_RETRIES
   /\ deliveryCount > MAX_RETRIES
   /\ pc = "Done")
    => Stopped

\* C13 amended: for a decodable message that fails with a transient error on
\* every delivery, redelivered with deliveryCount + 1 after each retry
\* request, some invocation eventually ends in Stopped, and nothing happens to
\* the message after it: no redelivery is requested, and no retry is requested
\* at a delivery past the budget.
C13_TransientRetriesBounded ==
  /\ []((Decodable /\ chain.allTransient /\ RetryRequested)
          => deliveryCount <= MAX_RETRIES)
  /\ (Decodable /\ chain.allTransient) ~> (Stopped \/ ~chain.allTransient)
  /\ [][~Stopped]_vars

\* C13 witness: a message first delivered with dequeueCount = 1 was stopped
\* after MAX_RETRIES retry requests.
C13_Witness ==
  /\ Stopped
  /\ chain.allTransient
  /\ chain.firstDelivery = 1
  /\ chain.retryRequests = MAX_RETRIES

Pos(e) ==
  IF \E i \in 1..Len(events) : events[i] = e
    THEN CHOOSE i \in 1..Len(events) :
           events[i] = e /\ \A j \in 1..(i - 1) : events[j] # e
    ELSE 0

\* If b has happened, a happened before it.
Before(a, b) == Pos(b) # 0 => (Pos(a) # 0 /\ Pos(a) < Pos(b))

\* C15: the steps of one invocation are sequential. On the transient path the
\* transport's callback precedes the call of onTransientError, and the
\* settling of onTransientError precedes the retry signal or the stop; on the
\* permanent path onPermanentError settles before any re-entry, and the
\* re-entered run's steps all follow it. While a step is awaited nothing later
\* has happened.
C15_StepsAreSequential ==
  /\ Before("updateMessage", "updateMessageCallback")
  /\ (Pos("updateMessage") # 0 => Before("updateMessageCallback", "onTransientError"))
  /\ Before("onTransientError", "onTransientErrorSettled")
  /\ Before("onTransientErrorSettled", "throwRetry")
  /\ Before("updateMessageCallback", "throwRetry")
  /\ (Pos("onTransientError") # 0 => Before("onTransientErrorSettled", "stop"))
  /\ Before("onPermanentError", "onPermanentErrorSettled")
  /\ Before("onPermanentErrorSettled", "reenter")
  /\ (Pos("reenter") # 0
        => \A e \in {"updateMessage", "exhausted", "onTransientError", "reject"} :
             Before("reenter", e))
  /\ (pc = "AwaitUpdateMessage" => onTransientArgs = <<>> /\ settled = "pending")
  /\ (pc = "AwaitOnTransient" => onTransientResult = "none" /\ settled = "pending")
  /\ (pc = "AwaitOnPermanent" => Len(frames) = 1 /\ settled = "pending")

\* C15 witness: an escalated run with every step taken, in order.
C15_Witness ==
  events = <<"onPermanentError", "onPermanentErrorSettled", "reenter",
             "updateMessage", "updateMessageCallback", "onTransientError",
             "onTransientErrorSettled", "throwRetry">>

\* C16: no step of an invocation, the re-entry included, changes the bindings
\* (id, popReceipt, dequeueCount) or the queue name; across the redeliveries
\* of a message its id is the same and its dequeueCount never decreases.
C16_DescriptorNeverMutated ==
  [][/\ (pc # "Done"
          => /\ queueMessageBindings' = queueMessageBindings
             /\ queueName' = queueName)
     /\ queueMessageBindings'.id = queueMessageBindings.id
     /\ queueMessageBindings'.dequeueCount >= queueMessageBindings.dequeueCount]_vars

\* C16 witness: an escalated run has ended past the budget with the bindings
\* it was given.
C16_Witness ==
  /\ Len(frames) = 2
  /\ Stopped
  /\ deliveryCount = MAX_RETRIES + 2
  /\ chain = BrokenChain

\* C17: the only operation an invocation performs on the queue transport is
\* updateMessage, at most once, on the message and queue it was given; a retry
\* is requested by rejecting the promise and in no other way.
C17_OnlyVisibilityUpdate ==
  /\ Len(transportCalls) <= 1
  /\ \A i \in 1..Len(transportCalls) :
       /\ transportCalls[i].op = "updateMessage"
       /\ transportCalls[i].id = queueMessageBindings.id
       /\ transportCalls[i].popReceipt = queueMessageBindings.popReceipt
       /\ transportCalls[i].queueName = queueName
  /\ (rejection = "Retry" => settled = "rejected" /\ Len(transportCalls) = 1)

\* C17 witness: a retry requested after one visibility update of the message.
C17_Witness ==
  /\ RetryRequested
  /\ Len(transportCalls) = 1
  /\ transportCalls[1].id = "id2"
  /\ transportCalls[1].popReceipt = "pr2"
  /\ transportCalls[1].queueName = "emailnotifications"

\* What one top-level invocation does at most once: the call of
\* onPermanentError, the call of onTransientError, the transport's visibility
\* update and the re-entry.
AtMostOnceEach ==
  /\ Len(onPermanentArgs) <= 1
  /\ Len(onTransientArgs) <= 1
  /\ Len(transportCalls) <= 1
  /\ Len(frames) <= 2

\* C20 as stated: each of the calls at most once, one level of re-entry at
\* most, and an invocation whose callbacks and transport call have completed
\* has ended in RetryRequested or in Stopped.
C20_Original ==
  /\ AtMostOnceEach
  /\ (pc = "Done" /\ onPermanentResult # "rejected") => (RetryRequested \/ Stopped)

\* C20 amended: within one top-level invocation onPermanentError,
\* onTransientError and the visibility update are each called at most once and
\* the function re-enters itself at most one level deep; the invocation always
\* ends, and for decodable bindings it ends in RetryRequested or in Stopped
\* provided the transport calls back and the callbacks' promises are fulfilled
\* (with a right or a left).
C20_EscalatesAtMostOnce ==
  /\ [](/\ AtMostOnceEach
        /\ (pc = "Done" /\ Decodable /\ onPermanentResult # "rejected")
             => (RetryRequested \/ Stopped))
  /\ (pc # "Done") ~> (pc = "Done")

\* C20 witness: one invocation has called onPermanentError, re-entered, updated
\* the visibility and called onTransientError, each once, and requested a
\* retry.
C20_Witness ==
  /\ Len(frames) = 2
  /\ Len(onPermanentArgs) = 1
  /\ Len(onTransientArgs) = 1
  /\ Len(transportCalls) = 1
  /\ transportResult = "ok"
  /\ callbackError.message = "cleanup timed out"
  /\ RetryRequested

\* What an invocation that runs alone ends with, given what it was called
\* with and what the transport and the callbacks answered: whether it took the
\* transient path (at once or by escalation), ...
AloneTransientPath(inv) ==
  \/ isTransientError(toRuntimeError(inv.frames[1]))
  \/ inv.onPermanentResult = "left"

\* ... its calls of the transport, ...
AloneTransportCalls(inv) ==
  IF /\ AloneTransientPath(inv)
     /\ inv.queueMessageBindings.missing = "none"
     /\ inv.queueMessageBindings.dequeueCount <= MAX_RETRIES
    THEN <<[op |-> "updateMessage", queueName |-> inv.queueName,
            id |-> inv.queueMessageBindings.id,
            popReceipt |-> inv.queueMessageBindings.popReceipt,
            visibilityTimeout |->
              CeilDiv(MIN_BACKOFF_MS * 2^(inv.queueMessageBindings.dequeueCount),
                      1000)]>>
    ELSE <<>>

\* ... its calls of onPermanentError and of onTransientError, ...
AloneOnPermanentArgs(inv) ==
  IF isTransientError(toRuntimeError(inv.frames[1]))
    THEN <<>>
    ELSE <<toRuntimeError(inv.frames[1])>>

AloneOnTransientArgs(inv) ==
  IF AloneTransientPath(inv) /\ inv.queueMessageBindings.missing = "none"
    THEN IF isTransientError(toRuntimeError(inv.frames[1]))
           THEN <<toRuntimeError(inv.frames[1])>>
           ELSE <<TransientError(inv.callbackError.message)>>
    ELSE <<>>

\* ... and how its promise settles.
AloneSettles(inv) ==
  IF ~AloneTransientPath(inv)
    THEN IF inv.onPermanentResult = "right"
           THEN <<"resolved", "none">>
           ELSE <<"rejected", "onPermanentError">>
    ELSE IF inv.queueMessageBindings.missing # "none"
           THEN <<"rejected", "INVALID_QUEUE_MESSAGE_IN_BINDINGS">>
           ELSE IF inv.queueMessageBindings.dequeueCount <= MAX_RETRIES
                  THEN <<"rejected", "Retry">>
                  ELSE <<"resolved", "none">>

\* An invocation touches its own message only, and once it has ended it has
\* done what it does alone.
SameAsAlone(inv) ==
  /\ \A i \in 1..Len(inv.transportCalls) :
       /\ inv.transportCalls[i].id = inv.queueMessageBindings.id
       /\ inv.transportCalls[i].queueName = inv.queueName
  /\ inv.pc = "Done"
       => /\ <<inv.settled, inv.rejection>> = AloneSettles(inv)
          /\ inv.transportCalls = AloneTransportCalls(inv)
          /\ inv.onPermanentArgs = AloneOnPermanentArgs(inv)
          /\ inv.onTransientArgs = AloneOnTransientArgs(inv)

\* C18: two invocations for different messages, interleaved at their awaits
\* in any way, do not affect each other: each one's outcome, calls of the
\* callbacks and calls of the transport are those of the same invocation
\* running alone.
C18_InvocationsIndependent ==
  /\ SameAsAlone(Locals)
  /\ SameAsAlone(other)
  /\ (other.pc # "Idle"
        => other.queueMessageBindings.id # queueMessageBindings.id)

\* C18 witness: the invocation for id1 has requested its retry while the one
\* for id2, past the budget, is suspended at its await of onTransientError.
C18_Witness ==
  /\ queueMessageBindings.id = "id1"
  /\ RetryRequested
  /\ other.pc = "AwaitOnTransient"
  /\ other.shouldTriggerARetry = "false"
  /\ other.queueMessageBindings.id = "id2"

\* C19: in the queue monitor a failed fetch of one queue's metadata does not
\* abort the others: whatever queues fail, a metric is tracked for every queue
\* whose fetch succeeds and an error is logged (and no metric tracked) for
\* every queue whose fetch fails, and the promise index returned never
\* rejects: it resolves once every queue has answered.
C19_FetchErrorDoesNotAbort ==
  /\ monSettled # "rejected"
  /\ \A q \in MonitoredQueues :
       /\ monFetch[q] # "rejected"
       /\ monFetch[q] = "right"
            <=> \E i \in 1..Len(monMetrics) : monMetrics[i].name = MetricName(q)
       /\ monFetch[q] = "left"
            <=> \E i \in 1..Len(monErrors) : monErrors[i] = q
  /\ Len(monMetrics) + Len(monErrors)
       = Cardinality({q \in MonitoredQueues : monFetch[q] \in {"left", "right"}})
  /\ (monSettled = "pending"
        /\ \A q \in MonitoredQueues : monFetch[q] \in {"left", "right"})
       => ENABLED PromiseAllResolves
  /\ monSettled = "resolved"
       => \A q \in MonitoredQueues : monFetch[q] \in {"left", "right"}

\* C19 witness: the run has resolved with the first fetch answered an error
\* and the metrics of the two other queues tracked after it.
C19_Witness ==
  /\ monSettled = "resolved"
  /\ monErrors = <<"emailnotifications">>
  /\ Len(monMetrics) = 2
  /\ \A q \in MonitoredQueues \ {"emailnotifications"} : monFetch[q] = "right"

\* C21 as stated: on the transient path, direct or escalated, onTransientError
\* has been called exactly once when the invocation ends.
C21_Original ==
  (isTransientError(runtimeError) /\ pc = "Done") => Len(onTransientArgs) = 1

\* C21 amended: for decodable bindings onTransientError is called exactly once
\* on the transient path, direct or escalated, also when the policy yields
\* none: it is called before the retry is thrown or the stop is taken, and on
\* an escalated run with the TransientError made of the cleanup error's
\* message, not with the original error. (With bindings that do not decode it
\* is not called at all.)
C21_OnTransientCalledOnce ==
  /\ Len(onTransientArgs) <= 1
  /\ (Decodable /\ isTransientError(runtimeError)
        /\ pc \in {"AwaitOnTransient", "Done"})
       => /\ Len(onTransientArgs) = 1
          /\ onTransientArgs[1] =
               IF Len(frames) = 2
                 THEN TransientError(callbackError.message)
                 ELSE toRuntimeError(frames[1])
          /\ (Len(frames) = 2 => onTransientArgs[1] # toRuntimeError(frames[1]))
          /\ (pc = "Done"
                => /\ Pos("onTransientError") # 0
                   /\ Pos("onTransientError") < Len(events)
                   /\ events[Len(events)] \in {"throwRetry", "stop"})
  /\ (~Decodable /\ isTransientError(runtimeError)) => onTransientArgs = <<>>

\* C21 witness: an escalated run past the budget has stopped after calling
\* onTransientError with the wrapped cleanup error.
C21_Witness ==
  /\ Stopped
  /\ Len(frames) = 2
  /\ deliveryCount > MAX_RETRIES
  /\ Pos("exhausted") # 0
  /\ onTransientArgs = <<TransientError("cleanup failed")>>

\* C22: whenever the visibility update is issued it is issued for the given
\* queue name, with the bindings' own id and popReceipt and with the delay
\* getDelaySecForRetries(dequeueCount) of the default maxRetries and
\* minBackoff, ceil(285 * 2^dequeueCount / 1000) seconds; nothing else is
\* sent to the transport.
C22_VisibilityUpdateArguments ==
  \A i \in 1..Len(transportCalls) :
    /\ deliveryCount <= MAX_RETRIES
    /\ transportCalls[i] =
         [op |-> "updateMessage",
          queueName |-> queueName,
          id |-> queueMessageBindings.id,
          popReceipt |-> queueMessageBindings.popReceipt,
          visibilityTimeout |->
            CeilDiv(MIN_BACKOFF_MS * 2^deliveryCount, 1000)]
    /\ Some(transportCalls[i].visibilityTimeout) =
         getDelaySecForRetries(deliveryCount, MAX_RETRIES, MIN_BACKOFF_MS)

\* C22 witness: the update issued at the third delivery, 3 seconds
\* (ceil(2.28)), for id2 / pr1 on emailnotifications.
C22_Witness ==
  /\ transportCalls =
       <<[op |-> "updateMessage", queueName |-> "emailnotifications",
          id |-> "id2", popReceipt |-> "pr1", visibilityTimeout |-> 3]>>
  /\ deliveryCount = 3

\* A message first delivered with dequeueCount = 1 every delivery of which
\* has failed with a transient error.
TransientFromFirstDelivery == chain.allTransient /\ chain.firstDelivery = 1

\* C23 as stated: such a message gets a retry request at each of the
\* deliveries 1..MAX_RETRIES and is stopped at delivery MAX_RETRIES + 1.
C23_Original ==
  (TransientFromFirstDelivery /\ HasDequeueCount /\ pc = "Done")
    => /\ (deliveryCount <= MAX_RETRIES => RetryRequested)
       /\ (deliveryCount = MAX_RETRIES + 1 => Stopped /\ chain.retryRequests = MAX_RETRIES)

\* C23 amended: the budget is consumed one unit per delivery. For a decodable
\* message first delivered with dequeueCount = 1 that fails with a transient
\* error on every delivery, the engine has requested a retry at each delivery
\* before the current one, requests one at every delivery 1..MAX_RETRIES and
\* stops at delivery MAX_RETRIES + 1, after MAX_RETRIES requests in all; no
\* later delivery happens. The delay asked for at a delivery is the one of
\* that delivery's number taken as the attempt index.
C23_BudgetPerDelivery ==
  (TransientFromFirstDelivery /\ Decodable)
    => /\ deliveryCount <= MAX_RETRIES + 1
       /\ chain.retryRequests =
            (deliveryCount - 1) + (IF RetryRequested THEN 1 ELSE 0)
       /\ (pc = "Done" /\ deliveryCount <= MAX_RETRIES => RetryRequested)
       /\ (pc = "Done" /\ deliveryCount = MAX_RETRIES + 1
             => Stopped /\ chain.retryRequests = MAX_RETRIES)
       /\ (Stopped => deliveryCount = MAX_RETRIES + 1)
       /\ \A i \in 1..Len(transportCalls) :
            transportCalls[i].visibilityTimeout =
              CeilDiv(MIN_BACKOFF_MS * 2^deliveryCount, 1000)

\* C23 witness: the retry requested at the last delivery of the budget, the
\* MAX_RETRIES-th request.
C23_Witness ==
  /\ TransientFromFirstDelivery
  /\ Decodable
  /\ RetryRequested
  /\ deliveryCount = MAX_RETRIES
  /\ chain.retryRequests = MAX_RETRIES

\* C24: when the promise of onPermanentError rejects, the function does not
\* escalate: it rejects with that rejection, without calling
\* onTransientError, without a visibility update and without re-entering,
\* whatever the dequeueCount.
C24_OnPermanentRejectionPropagates ==
  /\ onPermanentResult = "rejected"
       => /\ pc = "Done"
          /\ settled = "rejected"
          /\ rejection = "onPermanentError"
          /\ onTransientArgs = <<>>
          /\ transportCalls = <<>>
          /\ Len(frames) = 1
          /\ shouldTriggerARetry = "unset"
  /\ rejection = "onPermanentError" => onPermanentResult = "rejected"

\* C24 witness: the rejection propagated for a message past the retry budget.
C24_Witness ==
  /\ onPermanentResult = "rejected"
  /\ settled = "rejected"
  /\ deliveryCount > MAX_RETRIES
  /\ Decodable

\* C25: with bindings that do not decode (id, popReceipt or dequeueCount
\* missing or ill-typed) the transient path, direct or escalated, rejects with
\* INVALID_QUEUE_MESSAGE_IN_BINDINGS without a call of the transport and
\* without a call of onTransientError; on the permanent path with a right of
\* onPermanentError they have no effect and the invocation stops.
C25_UndecodableBindings ==
  /\ (~Decodable /\ isTransientError(runtimeError) /\ pc # "Received")
       => /\ pc = "Done"
          /\ settled = "rejected"
          /\ rejection = "INVALID_QUEUE_MESSAGE_IN_BINDINGS"
          /\ transportCalls = <<>>
          /\ onTransientArgs = <<>>
  /\ (~Decodable /\ onPermanentResult = "right")
       => Stopped /\ transportCalls = <<>>
  /\ rejection = "INVALID_QUEUE_MESSAGE_IN_BINDINGS" => ~Decodable

\* C25 witness: an escalated run rejected for bindings that lack their
\* dequeueCount.
C25_Witness ==
  /\ queueMessageBindings.missing = "dequeueCount"
  /\ Len(frames) = 2
  /\ rejection = "INVALID_QUEUE_MESSAGE_IN_BINDINGS"
  /\ Len(onPermanentArgs) = 1

\* C26: with the default minBackoff (285 ms) and maxRetries, the delay is at
\* least one second and strictly greater at each next retry number over
\* 1..MAX_RETRIES.
C26_DelayStrictlyIncreasing ==
  (/\ PolicyReturned
   /\ polMinBackoff = MIN_BACKOFF_MS
   /\ polMaxRetries = MAX_RETRIES
   /\ polRetries \in 1..MAX_RETRIES)
    => /\ polResult.tag = "some"
       /\ polResult.value >= 1
       /\ (polRetries < MAX_RETRIES
             => LET next == getDelaySecForRetries(polRetries + 1, polMaxRetries,
                                                  polMinBackoff)
                IN  next.tag = "some" /\ next.value > polResult.value)

\* C26 witness: the first delay, of one second (ceil(0.57)), followed by two
\* seconds at the next retry number.
C26_Witness ==
  /\ PolicyReturned
  /\ polMinBackoff = MIN_BACKOFF_MS
  /\ polMaxRetries = MAX_RETRIES
  /\ polRetries = 1
  /\ polResult = Some(1)
  /\ getDelaySecForRetries(2, polMaxRetries, polMinBackoff) = Some(2)

\* The transport allows more deliveries than the engine's budget and one.
BudgetBelowMaxDequeueCount == MAX_RETRIES < MaxDequeueCount - 1

MetricsOf(q) ==
  LET named(m) == m.name = MetricName(q) IN SelectSeq(monMetrics, named)

\* C27: the queue monitor takes one sample per monitored queue per run (one
\* call of getQueueMetadata per queue, never a second), and tracks the metric
\* queue.length.<queueName> exactly when that queue's fetch succeeded, once,
\* with the value approximateMessageCount, or 0 when the count is absent.
C27_OneSamplePerQueue ==
  \A q \in MonitoredQueues :
    /\ monCalls[q] = IF monSettled = "idle" THEN 0 ELSE 1
    /\ Len(monResults[q]) <= 1
    /\ monFetch[q] = "right"
         => /\ Len(monResults[q]) = 1
            /\ MetricsOf(q) =
                 <<[name |-> "queue.length." \o q,
                    value |-> IF monResults[q][1].hasCount
                                THEN monResults[q][1].approximateMessageCount
                                ELSE 0]>>
    /\ monFetch[q] # "right" => MetricsOf(q) = <<>> /\ monResults[q] = <<>>

\* C27 witness: one run has resolved with a count of 2 tracked for one queue,
\* 0 tracked for a queue whose count was absent, and nothing for the failed one.
C27_Witness ==
  /\ monSettled = "resolved"
  /\ monFetch["webhooknotifications"] = "left"
  /\ monResults["createdmessages"] =
       <<[hasCount |-> FALSE, approximateMessageCount |-> 0]>>
  /\ monMetrics =
       <<[name |-> "queue.length.emailnotifications", value |-> 2],
         [name |-> "queue.length.createdmessages", value |-> 0]>>

\* C28: the created-message handler calls context.done exactly once per
\* invocation on every path: never twice, once when the invocation has ended,
\* with an error if and only if findMessage rejected (and then with that
\* error), and without an error when the binding is missing, the message id
\* is null or absent, the message is found or it is not found; the lookup is
\* made only with a message id.
C28_DoneExactlyOnce ==
  /\ Len(cmDoneCalls) <= 1
  /\ Len(cmFindCalls) <= 1
  /\ (cmPc \in {"Triggered", "AwaitFind"} => cmDoneCalls = <<>>)
  /\ cmPc = "Done"
       => /\ Len(cmDoneCalls) = 1
          /\ (cmDoneCalls[1] # "none" <=> cmFind.tag = "error")
          /\ (cmFind.tag = "error" => cmDoneCalls[1] = cmFind.value)
          /\ (cmMessage.kind \in Nullish \/ cmMessage.messageId \in Nullish
                => cmDoneCalls = <<"none">> /\ cmFindCalls = <<>>)
          /\ (cmFind.tag \in {"found", "notFound"} => cmDoneCalls = <<"none">>)
          /\ (cmFindCalls # <<>>
                => cmFindCalls = <<cmMessage.messageId>>
                   /\ cmMessage.messageId \in MessagePayloadIds)

\* C28 witness: the second delivery of a message has failed its lookup too,
\* and was completed with that error.
C28_Witness ==
  /\ cmPc = "Done"
  /\ cmDequeueCount = 2
  /\ cmFind = [tag |-> "error", value |-> "query timed out"]
  /\ cmDoneCalls = <<"query timed out">>

\* C30: UpdateServiceHandler writes to the store only after every test has
\* passed: serviceModel.update is called (at most once) only when the payload's
\* service_id equals the path serviceId, findOneByServiceId found a service
\* and the payload converted to a Service, and it is called for that service.
\* When the ids differ the handler returns a validation error without reading
\* or writing the store, and each failed step returns its error with no
\* write.
C30_WriteOnlyAfterChecks ==
  /\ Len(svWrites) <= 1
  /\ Len(svReads) <= 1
  /\ \A i \in 1..Len(svWrites) :
       /\ svPayload.service_id = svServiceId
       /\ svReads = <<svServiceId>>
       /\ svExisting.tag = "found"
       /\ servicePayloadToService(svPayload).tag = "right"
       /\ svWrites[i].id = svExisting.service.id
       /\ svWrites[i].serviceId = svExisting.service.serviceId
       /\ svWrites[i].service.serviceId = svServiceId
  /\ (svPayload.service_id # svServiceId /\ svPc # "Called")
       => /\ svPc = "Returned"
          /\ svResponse.kind = "ErrorValidation"
          /\ svReads = <<>>
          /\ svWrites = <<>>
  /\ svExisting.tag = "left"
       => svPc = "Returned" /\ svResponse.kind = "ErrorQuery" /\ svWrites = <<>>
  /\ svExisting.tag = "notFound"
       => svPc = "Returned" /\ svResponse.kind = "ErrorNotFound" /\ svWrites = <<>>
  /\ (svExisting.tag = "found" /\ ~svPayload.decodes)
       => svPc = "Returned" /\ svResponse.kind = "ErrorValidation" /\ svWrites = <<>>
  /\ svResponse.kind = "SuccessJson" => Len(svWrites) = 1

\* C30 witness: a service found as "dept A" has been written as "dept B" and
\* the handler has answered with the updated service.
C30_Witness ==
  /\ svResponse.kind = "SuccessJson"
  /\ svExisting.service = StoredService("doc2", "s2", "dept A")
  /\ svWrites =
       <<[id |-> "doc2", serviceId |-> "s2",
          service |-> [id |-> "doc2", departmentName |-> "dept B",
                       serviceId |-> "s2"]]>>

=============================================================================
